---- MODULE Spec2Model ----
(***************************************************************************)
(* Model of my-cooking-app/backend/main.py: the /api/feedback and          *)
(* /api/chat handlers, the feedback summary file, the feedback event log   *)
(* and the provider retry loop.                                            *)
(*                                                                         *)
(* Text is modelled by TLA+ strings; str.lower, str.capitalize, the `in`   *)
(* substring test and json.loads are computed character by character.      *)
(* The timestamp of a feedback entry and the server log written through    *)
(* `logger` are not part of the state.                                     *)
(***************************************************************************)
EXTENDS Integers, Sequences, FiniteSets, TLC

(***************************************************************************)
(* Bounds of the model.                                                    *)
(***************************************************************************)
\* requests that arrive in one behaviour of Spec
MaxReq == 2
\* fragments concatenated into one feedback message in SpecClassify
MaxParts == 2
\* largest value of a stored counter in the initial stores of SpecTune
MaxCount == 1

(***************************************************************************)
(* Strings.                                                                *)
(***************************************************************************)
LowerAlpha == "abcdefghijklmnopqrstuvwxyz"
UpperAlpha == "ABCDEFGHIJKLMNOPQRSTUVWXYZ"

CharAt(s, i) == SubSeq(s, i, i)

\* the upper-case letters to their lower-case ones, and back
ToLower ==
    [c \in {CharAt(UpperAlpha, k) : k \in 1..26} |->
        CharAt(LowerAlpha, CHOOSE k \in 1..26 : CharAt(UpperAlpha, k) = c)]

ToUpper ==
    [c \in {CharAt(LowerAlpha, k) : k \in 1..26} |->
        CharAt(UpperAlpha, CHOOSE k \in 1..26 : CharAt(LowerAlpha, k) = c)]

LowerChar(c) == IF c \in DOMAIN ToLower THEN ToLower[c] ELSE c

UpperChar(c) == IF c \in DOMAIN ToUpper THEN ToUpper[c] ELSE c

RECURSIVE LowerFrom(_, _)
LowerFrom(s, i) ==
    IF i > Len(s) THEN "" ELSE LowerChar(CharAt(s, i)) \o LowerFrom(s, i + 1)

\* str.lower()
Lower(s) == LowerFrom(s, 1)

\* str.capitalize(): first character upper-cased, the rest lower-cased
Capitalize(s) ==
    IF Len(s) = 0 THEN "" ELSE UpperChar(CharAt(s, 1)) \o LowerFrom(s, 2)

\* `needle in s`
Contains(needle, s) ==
    \E n \in {needle}, t \in {s} :
        \E i \in 1..(Len(t) - Len(n) + 1) : SubSeq(t, i, i + Len(n) - 1) = n

RECURSIVE Join(_, _)
\* sep.join(parts)
Join(sep, parts) ==
    IF Len(parts) = 0 THEN ""
    ELSE IF Len(parts) = 1 THEN parts[1]
    ELSE parts[1] \o sep \o Join(sep, Tail(parts))

\* `x or ""` for an optional string: <<>> is None, <<s>> is the string s
OrEmpty(m) == IF Len(m) = 0 THEN "" ELSE m[1]

(***************************************************************************)
(* json.loads (main.py line 218) on the texts of the model: null, true,    *)
(* false, numbers without exponent, strings with the two-character         *)
(* escapes, arrays and objects, with surrounding whitespace.  A value is   *)
(* [t: its type, falsy: whether Python's bool() of it is False, repr: its  *)
(* text without insignificant whitespace].                                 *)
(***************************************************************************)
NoValue == [t |-> "none", falsy |-> TRUE, repr |-> ""]
ParseFail == [ok |-> FALSE, val |-> NoValue, next |-> 0]
Parsed(v, n) == [ok |-> TRUE, val |-> v, next |-> n]

IsWs(c) == c \in {" ", "\n", "\t", "\r"}
IsDigit(c) == c \in {"0", "1", "2", "3", "4", "5", "6", "7", "8", "9"}
At(s, i) == IF i >= 1 /\ i <= Len(s) THEN CharAt(s, i) ELSE ""
StartsAt(s, i, word) ==
    /\ i + Len(word) - 1 <= Len(s)
    /\ SubSeq(s, i, i + Len(word) - 1) = word

RECURSIVE SkipWs(_, _)
SkipWs(s, i) == IF IsWs(At(s, i)) THEN SkipWs(s, i + 1) ELSE i

RECURSIVE DigitsEnd(_, _)
DigitsEnd(s, i) == IF IsDigit(At(s, i)) THEN DigitsEnd(s, i + 1) ELSE i

AllZero(s) ==
    \A k \in 1..Len(s) : CharAt(s, k) \in {"0", "-", "."}

\* index just after the closing quote of the string opened at i - 1, or 0
RECURSIVE StringEnd(_, _)
StringEnd(s, i) ==
    LET c == At(s, i) IN
    IF c = "" \/ c \in {"\n", "\t", "\r"} THEN 0
    ELSE IF c = "\"" THEN i + 1
    ELSE IF c = "\\"
         THEN IF At(s, i + 1) \in {"\"", "\\", "/", "b", "f", "n", "r", "t"}
              THEN StringEnd(s, i + 2) ELSE 0
    ELSE StringEnd(s, i + 1)

ParseNumber(s, i) ==
    LET j == IF At(s, i) = "-" THEN i + 1 ELSE i
        k == IF At(s, j) = "0" THEN j + 1
             ELSE IF IsDigit(At(s, j)) THEN DigitsEnd(s, j) ELSE 0
        e == IF k # 0 /\ At(s, k) = "." /\ DigitsEnd(s, k + 1) > k + 1
             THEN DigitsEnd(s, k + 1) ELSE k
    IN IF k = 0 THEN ParseFail
       ELSE LET txt == SubSeq(s, i, e - 1)
            IN Parsed([t |-> "number", falsy |-> AllZero(txt), repr |-> txt], e)

ParseString(s, i) ==
    LET e == IF At(s, i) = "\"" THEN StringEnd(s, i + 1) ELSE 0
    IN IF e = 0 THEN ParseFail
       ELSE Parsed([t |-> "string", falsy |-> (e = i + 2),
                    repr |-> SubSeq(s, i, e - 1)], e)

RECURSIVE ParseValue(_, _)
RECURSIVE ParseElems(_, _, _)
RECURSIVE ParseMembers(_, _, _)

\* the elements of an array after "[": i is at the next element, acc holds
\* the reprs of the elements read so far
ParseElems(s, i, acc) ==
    LET r == ParseValue(s, SkipWs(s, i))
        j == SkipWs(s, r.next)
    IN IF ~r.ok THEN ParseFail
       ELSE IF At(s, j) = ","
            THEN ParseElems(s, j + 1, Append(acc, r.val.repr))
       ELSE IF At(s, j) = "]"
            THEN Parsed([t |-> "array", falsy |-> FALSE,
                         repr |-> "[" \o Join(",", Append(acc, r.val.repr)) \o "]"],
                        j + 1)
       ELSE ParseFail

\* the members of an object after "{": i is at the next key
ParseMembers(s, i, acc) ==
    LET k == ParseString(s, SkipWs(s, i))
        c == SkipWs(s, k.next)
        r == ParseValue(s, SkipWs(s, c + 1))
        j == SkipWs(s, r.next)
        m == k.val.repr \o ":" \o r.val.repr
    IN IF ~k.ok \/ At(s, c) # ":" THEN ParseFail
       ELSE IF ~r.ok THEN ParseFail
       ELSE IF At(s, j) = ","
            THEN ParseMembers(s, j + 1, Append(acc, m))
       ELSE IF At(s, j) = "}"
            THEN Parsed([t |-> "object", falsy |-> FALSE,
                         repr |-> "{" \o Join(",", Append(acc, m)) \o "}"],
                        j + 1)
       ELSE ParseFail

ParseValue(s, i) ==
    LET c == At(s, i) IN
    IF StartsAt(s, i, "null")
    THEN Parsed([t |-> "null", falsy |-> TRUE, repr |-> "null"], i + 4)
    ELSE IF StartsAt(s, i, "true")
    THEN Parsed([t |-> "bool", falsy |-> FALSE, repr |-> "true"], i + 4)
    ELSE IF StartsAt(s, i, "false")
    THEN Parsed([t |-> "bool", falsy |-> TRUE, repr |-> "false"], i + 5)
    ELSE IF c = "\"" THEN ParseString(s, i)
    ELSE IF c = "-" \/ IsDigit(c) THEN ParseNumber(s, i)
    ELSE IF c = "["
    THEN IF At(s, SkipWs(s, i + 1)) = "]"
         THEN Parsed([t |-> "array", falsy |-> TRUE, repr |-> "[]"],
                     SkipWs(s, i + 1) + 1)
         ELSE ParseElems(s, i + 1, <<>>)
    ELSE IF c = "{"
    THEN IF At(s, SkipWs(s, i + 1)) = "}"
         THEN Parsed([t |-> "object", falsy |-> TRUE, repr |-> "{}"],
                     SkipWs(s, i + 1) + 1)
         ELSE ParseMembers(s, i + 1, <<>>)
    ELSE ParseFail

\* json.loads(s): ok is FALSE where json.loads raises
json_loads(s) ==
    LET r == ParseValue(s, SkipWs(s, 1))
    IN IF r.ok /\ SkipWs(s, r.next) > Len(s)
       THEN [ok |-> TRUE, val |-> r.val]
       ELSE [ok |-> FALSE, val |-> NoValue]

(***************************************************************************)
(* The preference summary: a Python dict from signal name to count, a      *)
(* function whose domain is the set of keys present.                       *)
(***************************************************************************)
Signals ==
    {"positive_feedback_count", "negative_feedback_count", "make_harder",
     "make_easier", "add_ingredients", "reduce_ingredients", "shorter_time",
     "longer_time"}

EmptyPrefs == [k \in {} |-> 0]

\* prefs.get(k, 0)
Get(prefs, k) == IF k \in DOMAIN prefs THEN prefs[k] ELSE 0

\* prefs[k] = prefs.get(k, 0) + 1
Bump(prefs, k) ==
    [x \in (DOMAIN prefs) \cup {k} |-> IF x = k THEN Get(prefs, k) + 1 ELSE prefs[x]]

\* first-match-wins over the complaint types: what an elif chain would do
UpdatePrefsElif(prefs, type, msg) ==
    IF type = "upvote" THEN Bump(prefs, "positive_feedback_count")
    ELSE LET p1 == Bump(prefs, "negative_feedback_count") IN
         IF Contains("too easy", msg) \/ Contains("simple", msg)
         THEN Bump(p1, "make_harder")
         ELSE IF Contains("too hard", msg) \/ Contains("complex", msg)
         THEN Bump(p1, "make_easier")
         ELSE IF Contains("more ingredient", msg) \/ Contains("add", msg)
         THEN Bump(p1, "add_ingredients")
         ELSE IF Contains("less ingredient", msg) \/ Contains("simplify", msg)
         THEN Bump(p1, "reduce_ingredients")
         ELSE IF Contains("faster", msg) \/ Contains("quick", msg)
         THEN Bump(p1, "shorter_time")
         ELSE IF Contains("longer", msg) \/ Contains("slow cook", msg)
         THEN Bump(p1, "longer_time")
         ELSE p1

\* the complaint types tracked for every feedback type, not under the else
UpdatePrefsAnyType(prefs, type, msg) ==
    LET p1 == IF type = "upvote" THEN Bump(prefs, "positive_feedback_count")
              ELSE Bump(prefs, "negative_feedback_count")
        p2 == IF Contains("too easy", msg) \/ Contains("simple", msg)
              THEN Bump(p1, "make_harder") ELSE p1
        p3 == IF Contains("too hard", msg) \/ Contains("complex", msg)
              THEN Bump(p2, "make_easier") ELSE p2
        p4 == IF Contains("more ingredient", msg) \/ Contains("add", msg)
              THEN Bump(p3, "add_ingredients") ELSE p3
        p5 == IF Contains("less ingredient", msg) \/ Contains("simplify", msg)
              THEN Bump(p4, "reduce_ingredients") ELSE p4
        p6 == IF Contains("faster", msg) \/ Contains("quick", msg)
              THEN Bump(p5, "shorter_time") ELSE p5
        p7 == IF Contains("longer", msg) \/ Contains("slow cook", msg)
              THEN Bump(p6, "longer_time") ELSE p6
    IN p7

\* feedback, lines 101-117: msg is the lower-cased message
UpdatePrefs(prefs, type, msg) ==
    IF type = "upvote" THEN Bump(prefs, "positive_feedback_count")
    ELSE LET p1 == Bump(prefs, "negative_feedback_count")
             p2 == IF Contains("too easy", msg) \/ Contains("simple", msg)
                   THEN Bump(p1, "make_harder") ELSE p1
             p3 == IF Contains("too hard", msg) \/ Contains("complex", msg)
                   THEN Bump(p2, "make_easier") ELSE p2
             p4 == IF Contains("more ingredient", msg) \/ Contains("add", msg)
                   THEN Bump(p3, "add_ingredients") ELSE p3
             p5 == IF Contains("less ingredient", msg) \/ Contains("simplify", msg)
                   THEN Bump(p4, "reduce_ingredients") ELSE p4
             p6 == IF Contains("faster", msg) \/ Contains("quick", msg)
                   THEN Bump(p5, "shorter_time") ELSE p5
             p7 == IF Contains("longer", msg) \/ Contains("slow cook", msg)
                   THEN Bump(p6, "longer_time") ELSE p6
         IN p7

(***************************************************************************)
(* chat, lines 139-203: tuning notes and prompt.                           *)
(***************************************************************************)
NoteHarder == "Make recipes slightly more complex and advanced."
NoteEasier == "Simplify recipes with fewer cooking techniques."
NoteAdd == "Include more diverse ingredients."
NoteReduce == "Use fewer ingredients for simpler dishes."
NoteShorter == "Prioritize faster, quick-cook recipes."
NoteLonger == "Add more slow-cook or longer recipes for flavor depth."
NoteDefault == "Maintain your current balance."

\* an axis whose ties go to its first side: `>=` written for `>`
AxisNoteTie(prefs, a, b, noteA, noteB) ==
    IF Get(prefs, a) >= Get(prefs, b) THEN <<noteA>>
    ELSE IF Get(prefs, b) > Get(prefs, a) THEN <<noteB>>
    ELSE <<>>

\* one if/elif pair of lines 140-153
AxisNote(prefs, a, b, noteA, noteB) ==
    IF Get(prefs, a) > Get(prefs, b) THEN <<noteA>>
    ELSE IF Get(prefs, b) > Get(prefs, a) THEN <<noteB>>
    ELSE <<>>

\* lines 139-153
tuning_notes(prefs) ==
    AxisNote(prefs, "make_harder", "make_easier", NoteHarder, NoteEasier)
    \o AxisNote(prefs, "add_ingredients", "reduce_ingredients", NoteAdd, NoteReduce)
    \o AxisNote(prefs, "shorter_time", "longer_time", NoteShorter, NoteLonger)

Bullets(notes) == [i \in 1..Len(notes) |-> "- " \o notes[i]]

\* lines 155-158
adaptive_prompt(prefs) ==
    "Based on user feedback, adjust your style accordingly:\n"
    \o (IF Len(tuning_notes(prefs)) > 0
        THEN Join("\n", Bullets(tuning_notes(prefs)))
        ELSE "- " \o NoteDefault)

\* lines 161-166
system_prompt(prefs) ==
    "You are a helpful and creative recipe builder who can also chat casually.\n"
    \o "If the user asks about recipes or ingredients, respond with a valid JSON recipe using the schema below.\n"
    \o "Otherwise, respond conversationally in plain text.\n\n"
    \o adaptive_prompt(prefs) \o "\n"

recipe_triggers ==
    {"recipe", "cook", "ingredients", "dish", "meal", "food", "bake", "grill"}

\* lines 169-170
wants_recipe(user_input) ==
    \E low \in {Lower(user_input)} :
        \E word \in recipe_triggers : Contains(word, low)

\* lines 173-176
conversation(history, user_input) ==
    LET lines == [i \in 1..Len(history) |->
                    Capitalize(history[i].role) \o ": " \o history[i].text]
        joined == Join("\n", lines)
    IN (IF joined # "" THEN joined \o "\n" ELSE "") \o "User: " \o user_input

\* lines 179-201
instruction(wants) ==
    IF wants
    THEN "\nNow generate a recipe in valid JSON format using this schema:\n"
         \o "{\n"
         \o "  \"recipes\": [\n"
         \o "    {\n"
         \o "      \"name\": \"Recipe Name\",\n"
         \o "      \"ingredients\": [\"list\", \"of\", \"ingredients\"],\n"
         \o "      \"instructions\": [\"step\", \"by\", \"step\", \"instructions\"],\n"
         \o "      \"cookingTime\": \"estimated time\",\n"
         \o "      \"difficulty\": \"Easy | Medium | Hard\",\n"
         \o "      \"nutrition\": {\n"
         \o "        \"calories\": 450,\n"
         \o "        \"protein\": \"12g\",\n"
         \o "        \"carbs\": \"60g\"\n"
         \o "      },\n"
         \o "      \"otherInfo\": {\"optional\": \"any extra notes\"}\n"
         \o "    }\n"
         \o "  ]\n"
         \o "}"
    ELSE "\nRespond conversationally in natural language, not JSON."

\* line 203
full_prompt(prefs, history, user_input) ==
    "System: " \o system_prompt(prefs) \o "\n\n"
    \o conversation(history, user_input) \o "\n"
    \o instruction(wants_recipe(user_input))

(***************************************************************************)
(* Responses.  reply_kind says which of reply_text and reply_value is the  *)
(* "reply" of a chat response; a feedback response has neither.            *)
(***************************************************************************)
NoResponse ==
    [http |-> 0, status |-> "", reply_kind |-> "none", reply_text |-> "",
     reply_value |-> NoValue, is_json |-> FALSE]

\* line 122
FeedbackSuccess == [NoResponse EXCEPT !.http = 200, !.status = "success"]

\* an exception that leaves the handler: the framework answers 500
ServerError == [NoResponse EXCEPT !.http = 500, !.status = "error"]

TextReply(text) ==
    [NoResponse EXCEPT !.http = 200, !.reply_kind = "text", !.reply_text = text]

JsonReply(value) ==
    [NoResponse EXCEPT !.http = 200, !.reply_kind = "json",
                       !.reply_value = value, !.is_json = TRUE]

\* lines 232-235
SentinelText == "Error: Failed to get a response from Gemini after multiple attempts."
Sentinel == TextReply(SentinelText)

\* lines 215-221: None is NoValue
parsed_output(reply_text, wants) ==
    IF wants /\ json_loads(reply_text).ok THEN json_loads(reply_text).val
    ELSE NoValue

\* lines 213-226: text is response.text, "" also standing for None
ChatReply(text, wants) ==
    LET reply_text == IF text = "" THEN "(No response from model)" ELSE text
        parsed == parsed_output(reply_text, wants)
    IN IF ~parsed.falsy THEN JsonReply(parsed) ELSE TextReply(reply_text)

(***************************************************************************)
(* State.                                                                  *)
(*   summary_file  feedback_summary.json: absent, holding the preferences, *)
(*                 or corrupt (json.load raises on it)                     *)
(*   feedback_log  the entries of feedback_log.jsonl                       *)
(*   req           the requests received, in order of arrival              *)
(*   pc            where the handler of each request stands                *)
(*   loc           the local variables of each handler                     *)
(*   response      the response sent for each request                      *)
(* A request is served by one worker process.  Both handlers are           *)
(* `async def` without any await, so a worker's event loop runs one        *)
(* handler from its first line to its return before it starts another;     *)
(* handlers of different workers interleave at their file operations.      *)
(***************************************************************************)
VARIABLES summary_file, feedback_log, req, pc, loc, response

vars == <<summary_file, feedback_log, req, pc, loc, response>>

Workers == {"w1", "w2"}

\* range(3), line 207
MaxAttempts == 3

AbsentFile == [state |-> "absent", prefs |-> EmptyPrefs]
OkFile(prefs) == [state |-> "ok", prefs |-> prefs]
CorruptFile == [state |-> "corrupt", prefs |-> EmptyPrefs]

NoLocals ==
    [prefs |-> EmptyPrefs, tuning_notes |-> <<>>, prompt |-> "",
     wants_recipe |-> FALSE, attempt |-> 0, calls |-> 0, waits |-> <<>>,
     provider_text |-> ""]

Ids == 1..Len(req)

\* the handler holds its worker's event loop
Running(r) == pc[r] \in {"appended", "loaded", "calling", "sleeping"}

Finished(r) == pc[r] \in {"done", "failed", "aborted"}

Busy(w) == \E r \in Ids : req[r].worker = w /\ Running(r)

\* the event loop of the request's worker can start its handler
CanStart(r) == pc[r] = "pending" /\ ~Busy(req[r].worker)

\* lines 55-63, followed by summary.get("preferences", {})
load_feedback_summary(file, outcome) ==
    IF file.state = "absent" THEN EmptyPrefs
    ELSE IF file.state = "ok" /\ outcome = "ok" THEN file.prefs
    ELSE EmptyPrefs

\* lines 66-71: open() truncates the file before json.dump writes it
save_feedback_summary(file, prefs, outcome) ==
    IF outcome = "ok" THEN OkFile(prefs)
    ELSE IF outcome = "open_error" THEN file
    ELSE CorruptFile

Init ==
    /\ summary_file = AbsentFile
    /\ feedback_log = <<>>
    /\ req = <<>>
    /\ pc = <<>>
    /\ loc = <<>>
    /\ response = <<>>

(***************************************************************************)
(* Requests.                                                               *)
(***************************************************************************)
Arrive(request) ==
    /\ Len(req) < MaxReq
    /\ req' = Append(req, request)
    /\ pc' = Append(pc, "pending")
    /\ loc' = Append(loc, NoLocals)
    /\ response' = Append(response, NoResponse)
    /\ UNCHANGED <<summary_file, feedback_log>>

\* what is kept of a request once its handler has returned or died
Released(request) ==
    [endpoint |-> request.endpoint, worker |-> "", type |-> "",
     message |-> <<>>, history |-> <<>>]

FeedbackRequest(w, type, message) ==
    [endpoint |-> "feedback", worker |-> w, type |-> type,
     message |-> message, history |-> <<>>]

ChatRequest(w, message, history) ==
    [endpoint |-> "chat", worker |-> w, type |-> "",
     message |-> <<message>>, history |-> history]

(***************************************************************************)
(* feedback, lines 76-122.                                                 *)
(***************************************************************************)
\* the log opened with mode "w": every entry replaces the file
AppendEntryTruncating(log, entry) == <<entry>>

\* lines 91-92: open(..., "a") and one line written
AppendEntry(log, entry) == Append(log, entry)

\* lines 81-92: the entry is appended to feedback_log.jsonl outside any try
FbAppend(r, ok) ==
    /\ req[r].endpoint = "feedback"
    /\ CanStart(r)
    /\ IF ok
       THEN /\ feedback_log' = AppendEntry(feedback_log,
                    [type |-> req[r].type, message |-> OrEmpty(req[r].message)])
            /\ pc' = [pc EXCEPT ![r] = "appended"]
            /\ UNCHANGED response
            /\ UNCHANGED req
       ELSE /\ pc' = [pc EXCEPT ![r] = "failed"]
            /\ response' = [response EXCEPT ![r] = ServerError]
            /\ req' = [req EXCEPT ![r] = Released(req[r])]
            /\ UNCHANGED feedback_log
    /\ UNCHANGED <<summary_file, loc>>

\* lines 95-96
FbLoad(r, outcome) ==
    /\ req[r].endpoint = "feedback"
    /\ pc[r] = "appended"
    /\ loc' = [loc EXCEPT ![r].prefs = load_feedback_summary(summary_file, outcome)]
    /\ pc' = [pc EXCEPT ![r] = "loaded"]
    /\ UNCHANGED <<summary_file, feedback_log, req, response>>

\* lines 98-122
FbSave(r, outcome) ==
    /\ req[r].endpoint = "feedback"
    /\ pc[r] = "loaded"
    /\ \E msg \in {Lower(OrEmpty(req[r].message))} :
         \E prefs \in {UpdatePrefs(loc[r].prefs, req[r].type, msg)} :
            summary_file' = save_feedback_summary(summary_file, prefs, outcome)
    /\ response' = [response EXCEPT ![r] = FeedbackSuccess]
    /\ pc' = [pc EXCEPT ![r] = "done"]
    /\ loc' = [loc EXCEPT ![r] = NoLocals]
    /\ req' = [req EXCEPT ![r] = Released(req[r])]
    /\ UNCHANGED feedback_log

(***************************************************************************)
(* chat, lines 127-235.                                                    *)
(***************************************************************************)
\* the locals of chat with tuning left out once a history is sent
ChatLocalsHistory(request, prefs) ==
    LET notes == IF Len(request.history) > 0 THEN <<>> ELSE tuning_notes(prefs)
    IN [NoLocals EXCEPT
          !.prefs = prefs,
          !.tuning_notes = notes,
          !.prompt = full_prompt(IF Len(request.history) > 0 THEN EmptyPrefs ELSE prefs,
                                 request.history, request.message[1]),
          !.wants_recipe = wants_recipe(request.message[1])]

\* lines 131-204: the locals of chat once the prompt is built
ChatLocals(request, prefs) ==
    [NoLocals EXCEPT
        !.prefs = prefs,
        !.tuning_notes = tuning_notes(prefs),
        !.prompt = full_prompt(prefs, request.history, request.message[1]),
        !.wants_recipe = wants_recipe(request.message[1])]

\* lines 131-204
ChatBuild(r, outcome) ==
    /\ req[r].endpoint = "chat"
    /\ CanStart(r)
    /\ \E locals \in {ChatLocals(req[r], load_feedback_summary(summary_file, outcome))} :
         loc' = [loc EXCEPT ![r] = locals]
    /\ pc' = [pc EXCEPT ![r] = "calling"]
    /\ UNCHANGED <<summary_file, feedback_log, req, response>>

\* line 230: time.sleep(2 ** attempt) after every failed attempt
Backoff(attempt, waits) == Append(waits, 2 ^ attempt)

\* lines 209-226: the provider answers with text
ChatAnswer(r, text) ==
    /\ req[r].endpoint = "chat"
    /\ pc[r] = "calling"
    /\ response' = [response EXCEPT ![r] = ChatReply(text, loc[r].wants_recipe)]
    /\ pc' = [pc EXCEPT ![r] = "done"]
    /\ loc' = [loc EXCEPT ![r] =
                 [NoLocals EXCEPT !.attempt = loc[r].attempt,
                                  !.calls = loc[r].calls + 1,
                                  !.waits = loc[r].waits,
                                  !.wants_recipe = loc[r].wants_recipe,
                                  !.provider_text = text]]
    /\ req' = [req EXCEPT ![r] = Released(req[r])]
    /\ UNCHANGED <<summary_file, feedback_log>>

\* lines 209, 228-230: the provider raises, and the handler goes to sleep
\* inside time.sleep without giving up the event loop
ChatFail(r) ==
    /\ req[r].endpoint = "chat"
    /\ pc[r] = "calling"
    /\ loc' = [loc EXCEPT ![r].calls = @ + 1,
                          ![r].waits = Backoff(loc[r].attempt, @)]
    /\ pc' = [pc EXCEPT ![r] = "sleeping"]
    /\ UNCHANGED <<summary_file, feedback_log, req, response>>

\* time.sleep returns: the next round of the for loop, or lines 232-235
ChatWake(r) ==
    /\ req[r].endpoint = "chat"
    /\ pc[r] = "sleeping"
    /\ IF loc[r].attempt + 1 < MaxAttempts
       THEN /\ loc' = [loc EXCEPT ![r].attempt = @ + 1]
            /\ pc' = [pc EXCEPT ![r] = "calling"]
            /\ UNCHANGED <<response, req>>
       ELSE /\ loc' = [loc EXCEPT ![r] =
                         [NoLocals EXCEPT !.attempt = loc[r].attempt + 1,
                                          !.calls = loc[r].calls,
                                          !.waits = loc[r].waits]]
            /\ pc' = [pc EXCEPT ![r] = "done"]
            /\ response' = [response EXCEPT ![r] = Sentinel]
            /\ req' = [req EXCEPT ![r] = Released(req[r])]
    /\ UNCHANGED <<summary_file, feedback_log>>

\* the worker process dies: its requests get no response
Crash(w) ==
    /\ Busy(w)
    /\ pc' = [r \in Ids |->
                IF req[r].worker = w /\ ~Finished(r) THEN "aborted" ELSE pc[r]]
    /\ loc' = [r \in Ids |->
                IF req[r].worker = w /\ ~Finished(r) THEN NoLocals ELSE loc[r]]
    /\ req' = [r \in Ids |->
                IF req[r].worker = w /\ ~Finished(r) THEN Released(req[r]) ELSE req[r]]
    /\ UNCHANGED <<summary_file, feedback_log, response>>

(***************************************************************************)
(* The system: both endpoints, two workers, every outcome of the file      *)
(* operations and of the provider.                                         *)
(***************************************************************************)
ComplexAdd == [type |-> "downvote", message |-> <<"too complex, add ingredients">>]
FbInputs == {[type |-> "upvote", message |-> <<>>], ComplexAdd}
ChatMessages == {"give me a recipe", "What's a good dessert?"}
Greeting == <<[role |-> "user", text |-> "hi"], [role |-> "MODEL", text |-> "Hello!"]>>
ProviderTexts == {"{\"recipes\":[]}", "not json"}
LoadOutcomes == {"ok", "error"}
SaveOutcomes == {"ok", "open_error", "write_error"}

ArriveFeedback ==
    \E w \in Workers, f \in FbInputs :
        Arrive(FeedbackRequest(w, f.type, f.message))

ArriveChat ==
    \E w \in Workers, m \in ChatMessages : Arrive(ChatRequest(w, m, Greeting))

Next ==
    \/ ArriveFeedback
    \/ ArriveChat
    \/ \E r \in Ids, ok \in BOOLEAN : FbAppend(r, ok)
    \/ \E r \in Ids, o \in LoadOutcomes : FbLoad(r, o)
    \/ \E r \in Ids, o \in SaveOutcomes : FbSave(r, o)
    \/ \E r \in Ids, o \in LoadOutcomes : ChatBuild(r, o)
    \/ \E r \in Ids, t \in ProviderTexts : ChatAnswer(r, t)
    \/ \E r \in Ids : ChatFail(r)
    \/ \E r \in Ids : ChatWake(r)
    \/ \E w \in Workers : Crash(w)

Spec == Init /\ [][Next]_vars

(***************************************************************************)
(* Stores the program reaches: the summary file and the log after the      *)
(* given feedback entries were served one after the other, every file      *)
(* operation succeeding.                                                   *)
(***************************************************************************)
RECURSIVE PrefsAfter(_)
PrefsAfter(entries) ==
    IF Len(entries) = 0 THEN EmptyPrefs
    ELSE \* the last entry is served on the store the earlier ones left
         UpdatePrefs(PrefsAfter(SubSeq(entries, 1, Len(entries) - 1)),
                     entries[Len(entries)].type,
                     Lower(entries[Len(entries)].message))

InitAfter(entries) ==
    /\ summary_file = IF Len(entries) = 0 THEN AbsentFile
                      ELSE OkFile(PrefsAfter(entries))
    /\ feedback_log = entries
    /\ req = <<>>
    /\ pc = <<>>
    /\ loc = <<>>
    /\ response = <<>>

Downvote(message) == [type |-> "downvote", message |-> message]
Upvote(message) == [type |-> "upvote", message |-> message]

RECURSIVE Repeat(_, _)
Repeat(entry, n) == IF n = 0 THEN <<>> ELSE <<entry>> \o Repeat(entry, n - 1)

(***************************************************************************)
(* SpecClassify: one feedback request with a message put together from     *)
(* fragments, on an empty and on a used store, every file operation        *)
(* succeeding.                                                             *)
(***************************************************************************)
Fragments ==
    {"too easy", "SIMPLE", "Too Hard and ", "complex", "more ingredient", "add",
     "Less Ingredient", "simplify", "faster", "QUICK", "longer", "slow cook",
     "simpl", "e"}

RECURSIVE MessagesOf(_)
MessagesOf(n) ==
    IF n = 0 THEN {""}
    ELSE MessagesOf(n - 1) \cup {m \o f : m \in MessagesOf(n - 1), f \in Fragments}

ClassifyMessages == {<<>>} \cup {<<m>> : m \in MessagesOf(MaxParts)}

ClassifyStores ==
    {<<>>, <<Upvote(""), Downvote("too easy, too hard, add, simplify, faster, longer")>>}

InitClassify == \E entries \in ClassifyStores : InitAfter(entries)

ClassifyArrive ==
    /\ Len(req) = 0
    /\ \E w \in Workers, t \in {"upvote", "downvote"}, m \in ClassifyMessages :
          Arrive(FeedbackRequest(w, t, m))

NextClassify ==
    \/ ClassifyArrive
    \/ \E r \in Ids : FbAppend(r, TRUE)
    \/ \E r \in Ids : FbLoad(r, "ok")
    \/ \E r \in Ids : FbSave(r, "ok")

SpecClassify == InitClassify /\ [][NextClassify]_vars

(***************************************************************************)
(* SpecTune: one chat request on every store whose six directional         *)
(* counters are at most MaxCount.                                          *)
(***************************************************************************)
TuneStores ==
    {Repeat(Downvote("too easy"), c[1]) \o Repeat(Downvote("too hard"), c[2])
     \o Repeat(Downvote("more ingredients"), c[3])
     \o Repeat(Downvote("less ingredients"), c[4])
     \o Repeat(Downvote("faster"), c[5]) \o Repeat(Downvote("slow cook"), c[6]) :
        c \in [1..6 -> 0..MaxCount]}

InitTune == \E entries \in TuneStores : InitAfter(entries)

TuneArrive ==
    /\ Len(req) = 0
    /\ \E m \in ChatMessages : Arrive(ChatRequest("w1", m, <<>>))

NextTune ==
    \/ TuneArrive
    \/ \E r \in Ids, o \in LoadOutcomes : ChatBuild(r, o)

SpecTune == InitTune /\ [][NextTune]_vars

(***************************************************************************)
(* SpecInterpret: one chat request, the provider answering with any of     *)
(* InterpretTexts or failing.                                              *)
(***************************************************************************)
InterpretTexts ==
    {"", "hello", "not json", "{\"recipes\":[]}", " {\"recipes\": [ ] }\n",
     "{\"recipes\":[{\"name\":\"Soup\",\"ingredients\":[\"water\"]}]}",
     "{}", "[]", "null", "false", "true", "0", "1", "-0.0", "\"\"", "\"soup\"",
     "[0]", "{\"recipes\":[]} thanks", "{\"recipes\":[}", "[1,]"}

InterpretArrive == Len(req) = 0 /\ ArriveChat

NextInterpret ==
    \/ InterpretArrive
    \/ \E r \in Ids, o \in LoadOutcomes : ChatBuild(r, o)
    \/ \E r \in Ids, t \in InterpretTexts : ChatAnswer(r, t)
    \/ \E r \in Ids : ChatFail(r)
    \/ \E r \in Ids : ChatWake(r)

SpecInterpret == Init /\ [][NextInterpret]_vars

(***************************************************************************)
(* SpecChat: chat requests only, with and without history, on an empty     *)
(* store and on the store one downvote has left; no worker dies.           *)
(***************************************************************************)
ChatStores == {<<>>, <<Downvote("too complex, add ingredients")>>}

InitChat == \E entries \in ChatStores : InitAfter(entries)

ChatInputs ==
    {[message |-> "give me a recipe", history |-> <<>>],
     [message |-> "What's a good dessert?", history |-> Greeting]}

ArriveChatAny ==
    \E w \in Workers, c \in ChatInputs :
        Arrive(ChatRequest(w, c.message, c.history))

NextChat ==
    \/ ArriveChatAny
    \/ \E r \in Ids, o \in LoadOutcomes : ChatBuild(r, o)
    \/ \E r \in Ids, t \in ProviderTexts : ChatAnswer(r, t)
    \/ \E r \in Ids : ChatFail(r)
    \/ \E r \in Ids : ChatWake(r)

SpecChat == InitChat /\ [][NextChat]_vars

(***************************************************************************)
(* Properties.                                                             *)
(***************************************************************************)
IsChat(r) == req[r].endpoint = "chat"
IsFeedback(r) == req[r].endpoint = "feedback"

\* the chat handler returned after its last attempt failed
Exhausted(r) == IsChat(r) /\ pc[r] = "done" /\ loc[r].attempt = MaxAttempts

\* the chat handler returned what it made of a provider answer
Answered(r) == IsChat(r) /\ pc[r] = "done" /\ loc[r].calls = loc[r].attempt + 1

\* C1: a chat request whose provider calls all fail makes exactly 3 calls,
\* waits base and then 2 x base between them, with no wait after the last
\* failed attempt, and returns the sentinel reply with is_json false.
C1_ThreeCallsTwoWaits ==
    \A r \in Ids :
        Exhausted(r) =>
            /\ loc[r].calls = 3
            /\ loc[r].waits = <<1, 2>>
            /\ response[r] = Sentinel
            /\ response[r].http = 200 /\ ~response[r].is_json

\* C2: every feedback request that gets a response gets {status: "success"},
\* whatever happened to the log append, the summary load or the summary save.
C2_FeedbackAlwaysSuccess ==
    \A r \in Ids :
        (IsFeedback(r) /\ pc[r] \in {"done", "failed"}) =>
            response[r].status = "success"

\* C3: no step lowers a persisted counter: for every signal name the count in
\* a readable summary file is at least its count in the readable file before.
C3_CountsNeverDecrease ==
    [][(summary_file.state = "ok" /\ summary_file'.state = "ok") =>
          \A k \in Signals :
              Get(summary_file'.prefs, k) >= Get(summary_file.prefs, k)]_vars

\* C4: while a chat request sleeps in its backoff, every request waiting on the
\* same event loop can be started.
C4_BackoffSuspendsOnlyItsRequest ==
    \A r \in Ids, q \in Ids :
        (IsChat(r) /\ pc[r] = "sleeping" /\ pc[q] = "pending"
            /\ req[q].worker = req[r].worker) => CanStart(q)

\* C5: the reply to an answered chat request is the parsed value with
\* is_json true exactly when the message has recipe intent and the provider's
\* text parses as JSON, whatever the value; otherwise it is the provider's
\* text with is_json false.
C5_JsonIffParses ==
    \A r \in Ids :
        Answered(r) =>
            IF loc[r].wants_recipe /\ json_loads(loc[r].provider_text).ok
            THEN /\ response[r].is_json
                 /\ response[r].reply_kind = "json"
                 /\ response[r].reply_value = json_loads(loc[r].provider_text).val
            ELSE /\ ~response[r].is_json
                 /\ response[r].reply_kind = "text"
                 /\ response[r].reply_text = loc[r].provider_text

\* a step of the handler of chat request r
ChatStep(r) == IsChat(r) /\ pc'[r] # pc[r]

\* a chat step leaves the summary file and the feedback log as they are
ChatFrame ==
    \A r \in Ids : ChatStep(r) =>
        /\ summary_file' = summary_file
        /\ feedback_log' = feedback_log

\* the chat request is past building its prompt and holds its locals
HoldsPrompt(r) == IsChat(r) /\ pc[r] \in {"calling", "sleeping"}

\* C6 as stated: a chat step changes neither the summary file nor the feedback
\* log, and the directives of the prompt it builds are those of the counters
\* stored in the summary file.
C6_DirectivesOfStoredCounters ==
    [][/\ ChatFrame
       /\ \A r \in Ids :
             (ChatStep(r) /\ pc[r] = "pending" /\ pc'[r] = "calling") =>
                 loc'[r].tuning_notes = tuning_notes(summary_file.prefs)]_vars

\* the handler of chat request r builds its prompt in this step
Builds(r) == IsChat(r) /\ pc[r] = "pending" /\ pc'[r] = "calling"

\* C6 amended: a chat step changes neither the summary file nor the feedback
\* log, and the directives a chat request puts in its prompt are those of
\* every chat request that loaded the same counters (the stored ones, or the
\* empty default of a failed load), whatever their messages and histories.
C6_DirectivesOfLoadedCounters ==
    [][/\ ChatFrame
       /\ \A r \in Ids : Builds(r) =>
             /\ \A i \in 1..Len(loc'[r].tuning_notes) :
                   Contains("- " \o loc'[r].tuning_notes[i], loc'[r].prompt)
             /\ \A q \in Ids :
                   (HoldsPrompt(q)' /\ loc'[q].prefs = loc'[r].prefs) =>
                       loc'[q].tuning_notes = loc'[r].tuning_notes]_vars

C6_Witness ==
    \E r \in Ids, q \in Ids :
        /\ HoldsPrompt(r) /\ HoldsPrompt(q)
        /\ req[r].message # req[q].message /\ req[r].history # req[q].history
        /\ loc[r].prefs = loc[q].prefs
        /\ Len(loc[r].tuning_notes) = 2
        /\ summary_file.state = "ok" /\ Len(feedback_log) = 1

\* the one feedback entry of C7 is logged and its counters are saved
ComplexAddServed ==
    /\ feedback_log = <<[type |-> "downvote", message |-> "too complex, add ingredients"]>>
    /\ summary_file.state = "ok"
    /\ \A q \in Ids : IsFeedback(q) => Finished(q)

\* C7: a chat request that loads the summary saved for the single feedback
\* {downvote, "too complex, add ingredients"} builds a prompt with both the
\* "Simplify recipes" and the "Include more diverse ingredients" directive.
C7_SimplifyAndMoreIngredients ==
    \A r \in Ids :
        (HoldsPrompt(r) /\ ComplexAddServed /\ loc[r].prefs = summary_file.prefs) =>
            /\ Contains("- Simplify recipes", loc[r].prompt)
            /\ Contains("- Include more diverse ingredients", loc[r].prompt)

C7_Witness ==
    \E r \in Ids :
        HoldsPrompt(r) /\ ComplexAddServed /\ loc[r].prefs = summary_file.prefs

\* the trigger phrases of each complaint signal
TriggerPhrases ==
    [make_harder |-> {"too easy", "simple"},
     make_easier |-> {"too hard", "complex"},
     add_ingredients |-> {"more ingredient", "add"},
     reduce_ingredients |-> {"less ingredient", "simplify"},
     shorter_time |-> {"faster", "quick"},
     longer_time |-> {"longer", "slow cook"}]

\* the signals one submission is to increment
ExpectedSignals(type, message) ==
    IF type = "upvote" THEN {"positive_feedback_count"}
    ELSE {"negative_feedback_count"}
         \cup {k \in DOMAIN TriggerPhrases :
                 \E low \in {Lower(message)} :
                     \E phrase \in TriggerPhrases[k] : Contains(phrase, low)}

\* the handler of r saves, on the summary it loaded, and the save succeeds
SavesOnLoaded(r) ==
    /\ IsFeedback(r) /\ pc[r] = "loaded" /\ pc'[r] = "done"
    /\ summary_file.state # "corrupt" /\ loc[r].prefs = summary_file.prefs
    /\ summary_file'.state = "ok"

\* C8: a submission whose save succeeds on the summary it loaded raises by
\* exactly 1 the counters of its signals (upvote: positive_feedback_count
\* alone; downvote: negative_feedback_count and every signal with a trigger
\* phrase in the lower-cased message) and leaves every other counter as it was.
C8_ExactlyTheClassifiedSignals ==
    [][\A r \in Ids : SavesOnLoaded(r) =>
          \E expected \in {ExpectedSignals(req[r].type, OrEmpty(req[r].message))} :
              \A k \in Signals :
                  Get(summary_file'.prefs, k) =
                      Get(summary_file.prefs, k) + (IF k \in expected THEN 1 ELSE 0)]_vars

C8_Witness ==
    /\ Len(req) = 1 /\ pc[1] = "done" /\ summary_file.state = "ok"
    /\ Len(feedback_log) = 3
    /\ feedback_log[3] = [type |-> "downvote", message |-> "Too Hard and too easy"]
    /\ summary_file.prefs["make_harder"] = 2 /\ summary_file.prefs["make_easier"] = 2
    /\ summary_file.prefs["negative_feedback_count"] = 2
    /\ summary_file.prefs["add_ingredients"] = 1

AxisNotes ==
    <<NoteHarder, NoteEasier, NoteAdd, NoteReduce, NoteShorter, NoteLonger>>

\* one axis of C9, `listed` being the directives found in the prompt: the
\* directive of the strictly greater side and not the opposing one, neither
\* on a tie
AxisAsClaimed(prefs, listed, a, b, noteA, noteB) ==
    /\ noteA \in listed <=> Get(prefs, a) > Get(prefs, b)
    /\ noteB \in listed <=> Get(prefs, b) > Get(prefs, a)

\* C9: for every chat request and the counters it loaded, each axis puts the
\* directive of its strictly greater side in the prompt and not the other,
\* none on a tie; the directives in the prompt are listed in the order
\* difficulty, ingredients, time; the default directive is there exactly when
\* no axis has one.
C9_DirectivesFollowCounters ==
    \A r \in Ids : HoldsPrompt(r) =>
        \E p \in {loc[r].prefs}, t \in {loc[r].prompt} :
            \E listed \in {{n \in {AxisNotes[i] : i \in 1..6} \cup {NoteDefault} :
                              Contains("- " \o n, t)}} :
                /\ AxisAsClaimed(p, listed, "make_harder", "make_easier",
                                 NoteHarder, NoteEasier)
                /\ AxisAsClaimed(p, listed, "add_ingredients", "reduce_ingredients",
                                 NoteAdd, NoteReduce)
                /\ AxisAsClaimed(p, listed, "shorter_time", "longer_time",
                                 NoteShorter, NoteLonger)
                /\ NoteDefault \in listed <=> listed = {NoteDefault}
                /\ listed # {}
                /\ listed # {NoteDefault} =>
                      Contains(":\n" \o Join("\n", Bullets(SelectSeq(AxisNotes,
                                           LAMBDA n : n \in listed))) \o "\n", t)

C9_Witness ==
    \E r \in Ids :
        /\ HoldsPrompt(r)
        /\ Get(loc[r].prefs, "make_harder") = 1 /\ Get(loc[r].prefs, "make_easier") = 0
        /\ Get(loc[r].prefs, "add_ingredients") = 1
        /\ Get(loc[r].prefs, "reduce_ingredients") = 1
        /\ Get(loc[r].prefs, "shorter_time") = 0 /\ Get(loc[r].prefs, "longer_time") = 1
        /\ loc[r].tuning_notes = <<NoteHarder, NoteLonger>>

\* C10: the persisted positive_feedback_count + negative_feedback_count never
\* exceeds the number of entries of the feedback log.
C10_CountsWithinLog ==
    Get(summary_file.prefs, "positive_feedback_count")
        + Get(summary_file.prefs, "negative_feedback_count") <= Len(feedback_log)

\* two entries logged, one counted, the other handler died after its append
C10_Witness ==
    /\ Len(feedback_log) = 2
    /\ Get(summary_file.prefs, "positive_feedback_count")
         + Get(summary_file.prefs, "negative_feedback_count") = 1
    /\ \E r \in Ids, q \in Ids :
          IsFeedback(r) /\ pc[r] = "done" /\ IsFeedback(q) /\ pc[q] = "aborted"

====
